---- MODULE Spec2Model ----
(***************************************************************************)
(* Model of ironic_python_agent/extensions/image.py: the partition locator *)
(* _get_partition ("locate") and the GRUB2 installer _install_grub2        *)
(* ("installBootloader") with its try / except / finally cleanup.          *)
(*                                                                         *)
(* Strings are sequences of atoms; the atoms " " and "\n" are whitespace.  *)
(* External tools (partx, udevadm, lsblk, findfs, mount, umount, chroot)   *)
(* are black boxes whose outcome is chosen nondeterministically.           *)
(***************************************************************************)
EXTENDS Naturals, Sequences, FiniteSets, TLC

VARIABLES
    op,          \* which public operation this run performs
    pc,          \* position in the running operation
    ldevice,     \* locate: the device argument
    luuid,       \* locate: the uuid argument
    lres,        \* locate: outcome of the call (kind, path, tools invoked, scan output)
    device,      \* install: the local variable device (redefined for PReP)
    args,        \* install: the arguments device, root_uuid, efi and prep uuids
    root_partition,
    efi_partition,
    efi_mounted,
    disks,
    binary_name,
    idx,         \* install: position of the running for loop
    umount_binds_fail,
    exc,         \* install: the exception in flight when the finally block runs
    result,      \* install: what the caller receives
    dirExists,   \* the working directory made by tempfile.mkdtemp exists
    mounted,     \* the mount targets under the working directory that are mounted
    cmds,        \* every mount, umount, chroot and rmtree executed, in order
    tries,       \* attempts the last utils.execute call made
    phase        \* the stage of the installation session

\* ------------------------------------------------------------------ bounds

\* Most partition records (lines) a table scan reports.
MaxLines == 2

\* Most holder disks of a RAID assembly.
MaxHolders == 2

\* ------------------------------------------------------------------ strings

\* Python's None, a value different from every string.
None == <<"<None>">>

Whitespace == {" ", "\n"}

RECURSIVE LStrip(_)
LStrip(s) ==
    IF s # <<>> /\ Head(s) \in Whitespace THEN LStrip(Tail(s)) ELSE s

RECURSIVE RStrip(_)
RStrip(s) ==
    IF s # <<>> /\ s[Len(s)] \in Whitespace
    THEN RStrip(SubSeq(s, 1, Len(s) - 1))
    ELSE s

\* str.strip()
Strip(s) == RStrip(LStrip(s))

\* ------------------------------------------------------------------ devices

SDA == <<"/dev/", "sda">>
MD0 == <<"/dev/", "md0">>
Devices == {SDA, MD0}

\* hardware.is_md_device(device)
is_md_device(dev) == dev[2] = "md0"

\* device + 'p1'
MdPartition(dev) == dev \o <<"p1">>

\* What os.path.exists / os.stat find at a path.
NodeKinds == {"missing", "file", "blk"}

\* not os.path.exists(p) or not stat.S_ISBLK(os.stat(p).st_mode), negated
IsBlockNode(node) == node # "missing" /\ node = "blk"

\* ------------------------------------------------------------------ lsblk output

Keys == {"KNAME", "UUID", "PARTUUID", "TYPE"}

ab == <<"a", "b">>
AB == <<"A", "B">>
a_ == <<"a">>
abSp == <<"a", "b", " ">>

\* The identifiers a caller asks for.
Uuids == {ab, a_}

\* The values lsblk prints in the UUID, PARTUUID and TYPE fields.
RawUuids == {<<>>, ab, AB, a_, abSp}
RawPartUuids == {<<>>, ab}
RawTypes == {<<"part">>, <<"disk">>}

\* The kernel name lsblk prints on its i-th line.
KNames == <<"sda1", "sda2", "sda3", "sda4">>

\* One output line after shlex.split: the KEY=VAL tokens in print order.
Line(i, u, p, t) ==
    << [key |-> "KNAME", val |-> <<KNames[i]>>],
       [key |-> "UUID", val |-> u],
       [key |-> "PARTUUID", val |-> p],
       [key |-> "TYPE", val |-> t] >>

LinesAt(i) == { Line(i, u, p, t) : u \in RawUuids, p \in RawPartUuids, t \in RawTypes }

RECURSIVE ReportsOfLen(_)
ReportsOfLen(n) ==
    IF n = 0 THEN { <<>> }
    ELSE { Append(r, l) : r \in ReportsOfLen(n - 1), l \in LinesAt(n) }

\* report.split('\n'): the records, then the empty string after the final
\* newline (an empty output is the single empty line).
Reports == { Append(r, <<>>) : r \in UNION { ReportsOfLen(n) : n \in 0..MaxLines } }

\* part = {}; for key, val in (v.split('=', 1) for v in vals): part[key] = val.strip()
RECURSIVE ParseFrom(_, _, _)
ParseFrom(vals, i, part) ==
    IF i > Len(vals) THEN part
    ELSE ParseFrom(vals, i + 1,
             [k \in (DOMAIN part) \cup {vals[i].key} |->
                 IF k = vals[i].key THEN Strip(vals[i].val) ELSE part[k]])

ParseLine(line) == ParseFrom(line, 1, [k \in {} |-> None])

\* dict.get(key)
Get(part, key) == IF key \in DOMAIN part THEN part[key] ELSE None

DevPath(kname) == <<"/dev/">> \o kname

NoMatch == [found |-> FALSE, path |-> <<>>]

\* ScanFrom without the test of TYPE.
RECURSIVE ScanFrom_NoTypeCheck(_, _, _)
ScanFrom_NoTypeCheck(lines, i, uuid) ==
    IF i > Len(lines) THEN NoMatch
    ELSE LET part == ParseLine(lines[i]) IN
         IF Get(part, "UUID") = uuid \/ Get(part, "PARTUUID") = uuid
         THEN [found |-> TRUE, path |-> DevPath(Get(part, "KNAME"))]
         ELSE ScanFrom_NoTypeCheck(lines, i + 1, uuid)

\* One pass of the loop that compares a single field.
RECURSIVE ScanField(_, _, _, _)
ScanField(lines, i, uuid, key) ==
    IF i > Len(lines) THEN NoMatch
    ELSE LET part == ParseLine(lines[i]) IN
         IF Get(part, "TYPE") = <<"part">> /\ Get(part, key) = uuid
         THEN [found |-> TRUE, path |-> DevPath(Get(part, "KNAME"))]
         ELSE ScanField(lines, i + 1, uuid, key)

\* ScanFrom as two passes: all lines by UUID, then all lines by PARTUUID.
ScanFrom_UuidPassFirst(lines, i, uuid) ==
    IF ScanField(lines, i, uuid, "UUID").found
    THEN ScanField(lines, i, uuid, "UUID")
    ELSE ScanField(lines, i, uuid, "PARTUUID")

\* The for loop over the report's lines: the first line whose TYPE is
\* 'part' and whose UUID or PARTUUID equals uuid returns; falling off the
\* end reaches the loop's else branch.
RECURSIVE ScanFrom(_, _, _)
ScanFrom(lines, i, uuid) ==
    IF i > Len(lines) THEN NoMatch
    ELSE LET part == ParseLine(lines[i]) IN
         IF Get(part, "TYPE") # <<"part">> THEN ScanFrom(lines, i + 1, uuid)
         ELSE IF Get(part, "UUID") = uuid
              THEN [found |-> TRUE, path |-> DevPath(Get(part, "KNAME"))]
         ELSE IF Get(part, "PARTUUID") = uuid
              THEN [found |-> TRUE, path |-> DevPath(Get(part, "KNAME"))]
         ELSE ScanFrom(lines, i + 1, uuid)

Scan(lines, uuid) == ScanFrom(lines, 1, uuid)

\* ------------------------------------------------------------------ locate

Call(tool, arg, ok) == [tool |-> tool, arg |-> arg, ok |-> ok]

Outcome(kind, path, calls, report, node) ==
    [kind |-> kind, path |-> path, calls |-> calls, report |-> report, node |-> node]

NoReport == << "no lsblk output" >>

\* What findfs prints when it finds a device: the path and a newline.
FindfsStdout == { DevPath(<<k>>) \o <<"\n">> : k \in {"sda1", "sda2", "sdb2"} }

\* partx -u device, then udevadm settle; a ProcessExecutionError of either
\* one is logged and dropped, and a failing partx skips udevadm.
RefreshRuns(dev) ==
    { << Call("partx", dev, TRUE), Call("udevadm", <<"settle">>, TRUE) >>,
      << Call("partx", dev, TRUE), Call("udevadm", <<"settle">>, FALSE) >>,
      << Call("partx", dev, FALSE) >> }

\* MdRuns without the S_ISBLK test.
MdRuns_ExistsOnly(dev, calls) ==
    { IF node # "missing"
      THEN Outcome("return", MdPartition(dev), calls, NoReport, node)
      ELSE Outcome("DeviceNotFound", <<>>, calls, NoReport, node)
      : node \in NodeKinds }

\* The md shortcut: device + 'p1' must exist and be a block special file.
MdRuns(dev, calls) ==
    { IF IsBlockNode(node)
      THEN Outcome("return", MdPartition(dev), calls, NoReport, node)
      ELSE Outcome("DeviceNotFound", <<>>, calls, NoReport, node)
      : node \in NodeKinds }

\* FallbackRuns with the two probes in the other order.
FallbackRuns_PartUuidFirst(uuid, calls, report) ==
    LET byUuid(ok) == Call("findfs", <<"UUID=">> \o uuid, ok)
        byPartUuid(ok) == Call("findfs", <<"PARTUUID=">> \o uuid, ok)
    IN  { Outcome("return", Strip(out), Append(calls, byPartUuid(TRUE)), report, "unused")
          : out \in FindfsStdout }
        \cup
        { Outcome("return", Strip(out),
                  calls \o << byPartUuid(FALSE), byUuid(TRUE) >>, report, "unused")
          : out \in FindfsStdout }
        \cup
        { Outcome("DeviceNotFound", <<>>,
                  calls \o << byPartUuid(FALSE), byUuid(FALSE) >>, report, "unused") }

\* The else branch of the scan loop: findfs UUID=<uuid>, and if it fails
\* findfs PARTUUID=<uuid>; if both fail, DeviceNotFound.
FallbackRuns(uuid, calls, report) ==
    LET byUuid(ok) == Call("findfs", <<"UUID=">> \o uuid, ok)
        byPartUuid(ok) == Call("findfs", <<"PARTUUID=">> \o uuid, ok)
    IN  { Outcome("return", Strip(out), Append(calls, byUuid(TRUE)), report, "unused")
          : out \in FindfsStdout }
        \cup
        { Outcome("return", Strip(out),
                  calls \o << byUuid(FALSE), byPartUuid(TRUE) >>, report, "unused")
          : out \in FindfsStdout }
        \cup
        { Outcome("DeviceNotFound", <<>>,
                  calls \o << byUuid(FALSE), byPartUuid(FALSE) >>, report, "unused") }

\* lsblk -PbioKNAME,UUID,PARTUUID,TYPE device fails: the outer except
\* clause turns the ProcessExecutionError into CommandExecutionError.
LsblkFailedRun(dev, calls) ==
    Outcome("CommandExecutionError", <<>>,
            Append(calls, Call("lsblk", dev, FALSE)), NoReport, "unused")

\* lsblk printed report: the scan loop, then (no match) the fallbacks.
LsblkRuns(dev, uuid, calls, report) ==
    LET m == Scan(report, uuid)
        cs == Append(calls, Call("lsblk", dev, TRUE))
    IN  IF m.found
        THEN { Outcome("return", m.path, cs, report, "unused") }
        ELSE FallbackRuns(uuid, cs, report)

Idle == Outcome("idle", <<>>, <<>>, NoReport, "unused")

\* GetPartition without the inner try: a failed refresh ends the call.
GetPartition_RefreshFatal(dev, uuid, r) ==
    \E calls \in RefreshRuns(dev) :
       IF \E i \in 1..Len(calls) : ~calls[i].ok
       THEN r = Outcome("CommandExecutionError", <<>>, calls, NoReport, "unused")
       ELSE IF is_md_device(dev)
       THEN r \in MdRuns(dev, calls)
       ELSE \/ r = LsblkFailedRun(dev, calls)
            \/ \E report \in Reports : r \in LsblkRuns(dev, uuid, calls, report)

\* _get_partition(device, uuid): the table refresh, then the md shortcut or
\* the scan of the lsblk output; r is the way this call goes.
GetPartition(dev, uuid, r) ==
    \E calls \in RefreshRuns(dev) :
       IF is_md_device(dev)
       THEN r \in MdRuns(dev, calls)
       ELSE \/ r = LsblkFailedRun(dev, calls)
            \/ \E report \in Reports : r \in LsblkRuns(dev, uuid, calls, report)

\* The public operation locate(device, uuid).
Locate ==
    /\ op = "locate"
    /\ pc = "locate"
    /\ GetPartition(ldevice, luuid, lres')
    /\ pc' = "done"
    /\ UNCHANGED << op, ldevice, luuid, device, args, root_partition, efi_partition,
                    efi_mounted, disks, binary_name, idx, umount_binds_fail, exc,
                    result, dirExists, mounted, cmds, tries, phase >>

\* ------------------------------------------------------------------ install

BIND_MOUNTS == << "/dev", "/proc", "/run" >>

\* attempts=3 of the umount calls
UmountAttempts == 3

\* hardware.get_holder_disks(device): the member disks of the assembly.
HolderDisks == << <<"/dev/", "sdb">>, <<"/dev/", "sdc">>, <<"/dev/", "sdd">>,
                  <<"/dev/", "sde">> >>
HolderLists == { SubSeq(HolderDisks, 1, n) : n \in 1..MaxHolders }

\* The optional uuid arguments: absent, or given.
OptUuids == {None, ab}

NoExc == [kind |-> "none", cause |-> <<>>]
Exc(kind, cause) == [kind |-> kind, cause |-> cause]
Success == [kind |-> "ok", cause |-> <<>>]
NoResult == [kind |-> "running", cause |-> <<>>]

Cmd(cmd, arg, ok) == [cmd |-> cmd, arg |-> arg, ok |-> ok]

Result(r) == [kind |-> r.kind, path |-> r.path]

\* What the install calls of _get_partition can give: result kind and path
\* of every way GetPartition can go.
LocateResults(dev, uuid) ==
    UNION { IF is_md_device(dev)
            THEN { Result(r) : r \in MdRuns(dev, calls) }
            ELSE { Result(LsblkFailedRun(dev, calls)) }
                 \cup UNION { { Result(r) : r \in LsblkRuns(dev, uuid, calls, report) }
                              : report \in Reports }
            : calls \in RefreshRuns(dev) }

LocateTable == [d \in Devices, u \in Uuids |-> LocateResults(d, u)]

locVars == << ldevice, luuid, lres >>

\* Fail without the finally block: the error leaves at once.
Fail_NoFinally(cmd) ==
    /\ result' = Exc("CommandExecutionError", cmd)
    /\ pc' = "done"
    /\ UNCHANGED exc

\* except processutils.ProcessExecutionError as e: raise CommandExecutionError;
\* the finally block runs before the error leaves.
Fail(cmd) ==
    /\ exc' = Exc("CommandExecutionError", cmd)
    /\ pc' = "finally"
    /\ UNCHANGED result

\* Propagate as if the call stood before the try statement.
Propagate_OutsideTry(e) ==
    /\ result' = e
    /\ pc' = "done"
    /\ UNCHANGED exc

\* An error that is no ProcessExecutionError passes the except clause; the
\* finally block runs before it leaves.
Propagate(e) ==
    /\ exc' = e
    /\ pc' = "finally"
    /\ UNCHANGED result

\* root_partition = _get_partition(device, uuid=root_uuid), before the try.
LocateRoot ==
    /\ op = "installBootloader"
    /\ pc = "locate_root"
    /\ \E r \in LocateTable[device, args.root_uuid] :
          IF r.kind = "return"
          THEN /\ root_partition' = r.path
               /\ pc' = "mkdtemp"
               /\ UNCHANGED result
          ELSE /\ result' = Exc(r.kind, <<"locate", "root">>)
               /\ pc' = "done"
               /\ UNCHANGED root_partition
    /\ UNCHANGED << op, locVars, device, args, efi_partition, efi_mounted, disks,
                    binary_name, idx, umount_binds_fail, exc, dirExists, mounted,
                    cmds, tries, phase >>

\* path = tempfile.mkdtemp()
Mkdtemp ==
    /\ pc = "mkdtemp"
    /\ dirExists' = TRUE
    /\ phase' = "Created"
    /\ pc' = "locate_efi"
    /\ UNCHANGED << op, locVars, device, args, root_partition, efi_partition,
                    efi_mounted, disks, binary_name, idx, umount_binds_fail, exc,
                    result, mounted, cmds, tries >>

\* if efi_system_part_uuid: efi_partition = _get_partition(device, ...)
LocateEfi ==
    /\ pc = "locate_efi"
    /\ IF args.efi_uuid = None
       THEN /\ pc' = "locate_prep"
            /\ UNCHANGED << efi_partition, exc, result >>
       ELSE \E r \in LocateTable[device, args.efi_uuid] :
               IF r.kind = "return"
               THEN /\ efi_partition' = r.path
                    /\ pc' = "locate_prep"
                    /\ UNCHANGED << exc, result >>
               ELSE /\ Propagate(Exc(r.kind, <<"locate", "efi">>))
                    /\ UNCHANGED efi_partition
    /\ UNCHANGED << op, locVars, device, args, root_partition, efi_mounted, disks,
                    binary_name, idx, umount_binds_fail, dirExists, mounted, cmds,
                    tries, phase >>

\* if prep_boot_part_uuid: device = _get_partition(device, ...)
LocatePrep ==
    /\ pc = "locate_prep"
    /\ IF args.prep_uuid = None
       THEN /\ pc' = "holders"
            /\ UNCHANGED << device, exc, result >>
       ELSE \E r \in LocateTable[device, args.prep_uuid] :
               IF r.kind = "return"
               THEN /\ device' = r.path
                    /\ pc' = "holders"
                    /\ UNCHANGED << exc, result >>
               ELSE /\ Propagate(Exc(r.kind, <<"locate", "prep">>))
                    /\ UNCHANGED device
    /\ UNCHANGED << op, locVars, args, root_partition, efi_partition, efi_mounted,
                    disks, binary_name, idx, umount_binds_fail, dirExists, mounted,
                    cmds, tries, phase >>

\* if hardware.is_md_device(device): md_restart; disks = get_holder_disks
\* else: disks = [device]
Holders ==
    /\ pc = "holders"
    /\ IF is_md_device(device)
       THEN \E hs \in HolderLists : disks' = hs
       ELSE disks' = << device >>
    /\ pc' = "mount_root"
    /\ UNCHANGED << op, locVars, device, args, root_partition, efi_partition,
                    efi_mounted, binary_name, idx, umount_binds_fail, exc, result,
                    dirExists, mounted, cmds, tries, phase >>

\* utils.execute('mount', root_partition, path)
MountRoot ==
    /\ pc = "mount_root"
    /\ \E ok \in BOOLEAN :
          /\ cmds' = Append(cmds, Cmd("mount", <<"root">>, ok))
          /\ IF ok
             THEN /\ mounted' = mounted \cup {"root"}
                  /\ phase' = "RootMounted"
                  /\ pc' = "mount_bind"
                  /\ idx' = 1
                  /\ UNCHANGED << exc, result >>
             ELSE /\ Fail(<<"mount", "root">>)
                  /\ UNCHANGED << mounted, phase, idx >>
    /\ tries' = 1
    /\ UNCHANGED << op, locVars, device, args, root_partition, efi_partition,
                    efi_mounted, disks, binary_name, umount_binds_fail, dirExists >>

\* for fs in BIND_MOUNTS: utils.execute('mount', '-o', 'bind', fs, path + fs)
MountBind ==
    /\ pc = "mount_bind"
    /\ LET fs == BIND_MOUNTS[idx] IN
       \E ok \in BOOLEAN :
          /\ cmds' = Append(cmds, Cmd("mount", <<fs>>, ok))
          /\ IF ok
             THEN /\ mounted' = mounted \cup {fs}
                  /\ IF idx = Len(BIND_MOUNTS)
                     THEN /\ pc' = "mount_sys"
                          /\ phase' = "BindsMounted"
                          /\ UNCHANGED idx
                     ELSE /\ idx' = idx + 1
                          /\ UNCHANGED << pc, phase >>
                  /\ UNCHANGED << exc, result >>
             ELSE /\ Fail(<<"mount", fs>>)
                  /\ UNCHANGED << mounted, phase, idx >>
    /\ tries' = 1
    /\ UNCHANGED << op, locVars, device, args, root_partition, efi_partition,
                    efi_mounted, disks, binary_name, umount_binds_fail, dirExists >>

\* utils.execute('mount', '-t', 'sysfs', 'none', path + '/sys')
MountSys ==
    /\ pc = "mount_sys"
    /\ \E ok \in BOOLEAN :
          /\ cmds' = Append(cmds, Cmd("mount", <<"/sys">>, ok))
          /\ IF ok
             THEN /\ mounted' = mounted \cup {"/sys"}
                  /\ phase' = "SysMounted"
                  /\ pc' = "mount_efi"
                  /\ UNCHANGED << exc, result >>
             ELSE /\ Fail(<<"mount", "/sys">>)
                  /\ UNCHANGED << mounted, phase >>
    /\ tries' = 1
    /\ UNCHANGED << op, locVars, device, args, root_partition, efi_partition,
                    efi_mounted, disks, binary_name, idx, umount_binds_fail,
                    dirExists >>

\* MountEfi whose mount failure is swallowed, so the installation goes on.
MountEfi_IgnoreFailure ==
    /\ pc = "mount_efi"
    /\ IF efi_partition = None
       THEN UNCHANGED << cmds, mounted, efi_mounted, phase, tries >>
       ELSE \E ok \in BOOLEAN :
               /\ cmds' = Append(cmds, Cmd("mount", <<"efi">>, ok))
               /\ tries' = 1
               /\ IF ok
                  THEN /\ mounted' = mounted \cup {"efi"}
                       /\ efi_mounted' = TRUE
                       /\ phase' = "EfiMounted"
                  ELSE UNCHANGED << mounted, efi_mounted, phase >>
    /\ pc' = "binary"
    /\ UNCHANGED << op, locVars, device, args, root_partition, efi_partition,
                    disks, binary_name, idx, umount_binds_fail, dirExists,
                    exc, result >>

\* if efi_partition: makedirs; utils.execute('mount', efi_partition,
\* efi_partition_mount_point); efi_mounted = True
MountEfi ==
    /\ pc = "mount_efi"
    /\ IF efi_partition = None
       THEN /\ pc' = "binary"
            /\ UNCHANGED << cmds, mounted, efi_mounted, phase, exc, result, tries >>
       ELSE \E ok \in BOOLEAN :
               /\ cmds' = Append(cmds, Cmd("mount", <<"efi">>, ok))
               /\ tries' = 1
               /\ IF ok
                  THEN /\ mounted' = mounted \cup {"efi"}
                       /\ efi_mounted' = TRUE
                       /\ phase' = "EfiMounted"
                       /\ pc' = "binary"
                       /\ UNCHANGED << exc, result >>
                  ELSE /\ Fail(<<"mount", "efi">>)
                       /\ UNCHANGED << mounted, efi_mounted, phase >>
    /\ UNCHANGED << op, locVars, device, args, root_partition, efi_partition,
                    disks, binary_name, idx, umount_binds_fail, dirExists >>

\* binary_name = "grub", or "grub2" if usr/sbin/grub2-install exists
ChooseBinary ==
    /\ pc = "binary"
    /\ \E b \in {"grub", "grub2"} : binary_name' = b
    /\ phase' = "InstallAttempted"
    /\ pc' = "install"
    /\ idx' = 1
    /\ UNCHANGED << op, locVars, device, args, root_partition, efi_partition,
                    efi_mounted, disks, umount_binds_fail, exc, result, dirExists,
                    mounted, cmds, tries >>

InstallCmd(dev) == << binary_name, "-install" >> \o dev
RemovableCmd(dev) == InstallCmd(dev) \o << "--removable" >>
MkconfigCmd == << binary_name, "-mkconfig" >>

\* for grub_disk in disks: chroot ... "<bin>-install <grub_disk>"
GrubInstall ==
    /\ pc = "install"
    /\ \E ok \in BOOLEAN :
          /\ cmds' = Append(cmds, Cmd("chroot", InstallCmd(disks[idx]), ok))
          /\ IF ok
             THEN /\ IF idx = Len(disks)
                     THEN pc' = "removable" /\ UNCHANGED idx
                     ELSE idx' = idx + 1 /\ UNCHANGED pc
                  /\ UNCHANGED << exc, result >>
             ELSE /\ Fail(InstallCmd(disks[idx]))
                  /\ UNCHANGED idx
    /\ tries' = 1
    /\ UNCHANGED << op, locVars, device, args, root_partition, efi_partition,
                    efi_mounted, disks, binary_name, umount_binds_fail, dirExists,
                    mounted, phase >>

\* if efi_partition: chroot ... "<bin>-install <device> --removable"
GrubRemovable ==
    /\ pc = "removable"
    /\ IF efi_partition = None
       THEN /\ pc' = "mkconfig"
            /\ UNCHANGED << cmds, exc, result, tries >>
       ELSE \E ok \in BOOLEAN :
               /\ cmds' = Append(cmds, Cmd("chroot", RemovableCmd(device), ok))
               /\ tries' = 1
               /\ IF ok
                  THEN pc' = "mkconfig" /\ UNCHANGED << exc, result >>
                  ELSE Fail(RemovableCmd(device))
    /\ UNCHANGED << op, locVars, device, args, root_partition, efi_partition,
                    efi_mounted, disks, binary_name, idx, umount_binds_fail,
                    dirExists, mounted, phase >>

\* chroot ... "<bin>-mkconfig -o /boot/<bin>/grub.cfg"
GrubMkconfig ==
    /\ pc = "mkconfig"
    /\ \E ok \in BOOLEAN :
          /\ cmds' = Append(cmds, Cmd("chroot", MkconfigCmd, ok))
          /\ IF ok
             THEN pc' = "finally" /\ UNCHANGED << exc, result >>
             ELSE Fail(MkconfigCmd)
    /\ tries' = 1
    /\ UNCHANGED << op, locVars, device, args, root_partition, efi_partition,
                    efi_mounted, disks, binary_name, idx, umount_binds_fail,
                    dirExists, mounted, phase >>

\* ------------------------------------------------------------------ cleanup

\* utils.execute('umount', target, attempts=3, delay_on_retry=True): umount
\* of a target that is not mounted fails on every attempt; umount of a
\* mounted target succeeds on some attempt or fails on all of them.
UmountRuns(target) ==
    IF target \in mounted
    THEN { [ok |-> TRUE, tries |-> n] : n \in 1..UmountAttempts }
         \cup { [ok |-> FALSE, tries |-> UmountAttempts] }
    ELSE { [ok |-> FALSE, tries |-> UmountAttempts] }

\* finally: umount_binds_fail = False
EnterFinally ==
    /\ pc = "finally"
    /\ umount_binds_fail' = FALSE
    /\ phase' = "Unmounting"
    /\ pc' = "umount_efi"
    /\ UNCHANGED << op, locVars, device, args, root_partition, efi_partition,
                    efi_mounted, disks, binary_name, idx, exc, result, dirExists,
                    mounted, cmds, tries >>

\* UmountEfi with the failure only logged, like the bind unmounts.
\* UmountEfi whose failure is remembered as the error to report while the
\* remaining cleanup still runs.
UmountEfi_ContinueCleanup ==
    /\ pc = "umount_efi"
    /\ IF efi_mounted
       THEN \E o \in UmountRuns("efi") :
               /\ cmds' = Append(cmds, Cmd("umount", <<"efi">>, o.ok))
               /\ tries' = o.tries
               /\ IF o.ok
                  THEN mounted' = mounted \ {"efi"} /\ UNCHANGED exc
                  ELSE /\ exc' = Exc("CommandExecutionError", <<"umount", "efi">>)
                       /\ UNCHANGED mounted
       ELSE UNCHANGED << cmds, tries, mounted, exc >>
    /\ pc' = "umount_bind"
    /\ idx' = 1
    /\ UNCHANGED << op, locVars, device, args, root_partition, efi_partition,
                    efi_mounted, disks, binary_name, umount_binds_fail,
                    dirExists, result, phase >>

UmountEfi_WarnOnly ==
    /\ pc = "umount_efi"
    /\ IF efi_mounted
       THEN \E o \in UmountRuns("efi") :
               /\ cmds' = Append(cmds, Cmd("umount", <<"efi">>, o.ok))
               /\ tries' = o.tries
               /\ mounted' = IF o.ok THEN mounted \ {"efi"} ELSE mounted
       ELSE UNCHANGED << cmds, tries, mounted >>
    /\ pc' = "umount_bind"
    /\ idx' = 1
    /\ UNCHANGED << op, locVars, device, args, root_partition, efi_partition,
                    efi_mounted, disks, binary_name, umount_binds_fail, exc,
                    dirExists, result, phase >>

\* if efi_mounted: umount the EFI mount point; a failure raises
\* CommandExecutionError out of the finally block.
UmountEfi ==
    /\ pc = "umount_efi"
    /\ IF efi_mounted
       THEN \E o \in UmountRuns("efi") :
               /\ cmds' = Append(cmds, Cmd("umount", <<"efi">>, o.ok))
               /\ tries' = o.tries
               /\ IF o.ok
                  THEN /\ mounted' = mounted \ {"efi"}
                       /\ pc' = "umount_bind"
                       /\ idx' = 1
                       /\ UNCHANGED << result, phase >>
                  ELSE /\ result' = Exc("CommandExecutionError", <<"umount", "efi">>)
                       /\ pc' = "done"
                       /\ phase' = "LeftBehind"
                       /\ UNCHANGED << mounted, idx >>
       ELSE /\ pc' = "umount_bind"
            /\ idx' = 1
            /\ UNCHANGED << cmds, tries, mounted, result, phase >>
    /\ UNCHANGED << op, locVars, device, args, root_partition, efi_partition,
                    efi_mounted, disks, binary_name, umount_binds_fail, exc,
                    dirExists >>

\* UmountBind that leaves the loop over BIND_MOUNTS at the first failure.
UmountBind_BreakOnFailure ==
    /\ pc = "umount_bind"
    /\ LET fs == BIND_MOUNTS[idx] IN
       \E o \in UmountRuns(fs) :
          /\ cmds' = Append(cmds, Cmd("umount", <<fs>>, o.ok))
          /\ tries' = o.tries
          /\ IF o.ok
             THEN /\ mounted' = mounted \ {fs}
                  /\ UNCHANGED umount_binds_fail
                  /\ IF idx = Len(BIND_MOUNTS)
                     THEN pc' = "umount_sys" /\ UNCHANGED idx
                     ELSE idx' = idx + 1 /\ UNCHANGED pc
             ELSE /\ umount_binds_fail' = TRUE
                  /\ pc' = "umount_sys"
                  /\ UNCHANGED << mounted, idx >>
    /\ UNCHANGED << op, locVars, device, args, root_partition, efi_partition,
                    efi_mounted, disks, binary_name, exc, result, dirExists, phase >>

\* UmountBind with a failure that is logged but not recorded in the flag.
UmountBind_NoFlag ==
    /\ pc = "umount_bind"
    /\ LET fs == BIND_MOUNTS[idx] IN
       \E o \in UmountRuns(fs) :
          /\ cmds' = Append(cmds, Cmd("umount", <<fs>>, o.ok))
          /\ tries' = o.tries
          /\ mounted' = IF o.ok THEN mounted \ {fs} ELSE mounted
    /\ IF idx = Len(BIND_MOUNTS)
       THEN pc' = "umount_sys" /\ UNCHANGED idx
       ELSE idx' = idx + 1 /\ UNCHANGED pc
    /\ UNCHANGED << op, locVars, device, args, root_partition, efi_partition,
                    efi_mounted, disks, binary_name, exc, result, dirExists, phase,
                    umount_binds_fail >>

\* UmountBind walking BIND_MOUNTS from its last entry to its first.
UmountBind_Reversed ==
    /\ pc = "umount_bind"
    /\ LET fs == BIND_MOUNTS[Len(BIND_MOUNTS) + 1 - idx] IN
       \E o \in UmountRuns(fs) :
          /\ cmds' = Append(cmds, Cmd("umount", <<fs>>, o.ok))
          /\ tries' = o.tries
          /\ IF o.ok
             THEN mounted' = mounted \ {fs} /\ UNCHANGED umount_binds_fail
             ELSE umount_binds_fail' = TRUE /\ UNCHANGED mounted
    /\ IF idx = Len(BIND_MOUNTS)
       THEN pc' = "umount_sys" /\ UNCHANGED idx
       ELSE idx' = idx + 1 /\ UNCHANGED pc
    /\ UNCHANGED << op, locVars, device, args, root_partition, efi_partition,
                    efi_mounted, disks, binary_name, exc, result, dirExists, phase >>

\* for fs in BIND_MOUNTS: umount path + fs; a failure sets umount_binds_fail
UmountBind ==
    /\ pc = "umount_bind"
    /\ LET fs == BIND_MOUNTS[idx] IN
       \E o \in UmountRuns(fs) :
          /\ cmds' = Append(cmds, Cmd("umount", <<fs>>, o.ok))
          /\ tries' = o.tries
          /\ IF o.ok
             THEN mounted' = mounted \ {fs} /\ UNCHANGED umount_binds_fail
             ELSE umount_binds_fail' = TRUE /\ UNCHANGED mounted
    /\ IF idx = Len(BIND_MOUNTS)
       THEN pc' = "umount_sys" /\ UNCHANGED idx
       ELSE idx' = idx + 1 /\ UNCHANGED pc
    /\ UNCHANGED << op, locVars, device, args, root_partition, efi_partition,
                    efi_mounted, disks, binary_name, exc, result, dirExists, phase >>

\* umount path + '/sys'; a failure sets umount_binds_fail
UmountSys ==
    /\ pc = "umount_sys"
    /\ \E o \in UmountRuns("/sys") :
          /\ cmds' = Append(cmds, Cmd("umount", <<"/sys">>, o.ok))
          /\ tries' = o.tries
          /\ IF o.ok
             THEN mounted' = mounted \ {"/sys"} /\ UNCHANGED umount_binds_fail
             ELSE umount_binds_fail' = TRUE /\ UNCHANGED mounted
    /\ pc' = "umount_root"
    /\ UNCHANGED << op, locVars, device, args, root_partition, efi_partition,
                    efi_mounted, disks, binary_name, idx, exc, result, dirExists,
                    phase >>

\* UmountRoot without the test of umount_binds_fail.
UmountRoot_IgnoreFlag ==
    /\ pc = "umount_root"
    /\ \E o \in UmountRuns("root") :
          /\ cmds' = Append(cmds, Cmd("umount", <<"root">>, o.ok))
          /\ tries' = o.tries
          /\ IF o.ok
             THEN /\ mounted' = mounted \ {"root"}
                  /\ pc' = "rmtree"
                  /\ UNCHANGED phase
             ELSE /\ pc' = "return"
                  /\ phase' = "LeftBehind"
                  /\ UNCHANGED mounted
    /\ UNCHANGED << op, locVars, device, args, root_partition, efi_partition,
                    efi_mounted, disks, binary_name, idx, umount_binds_fail, exc,
                    result, dirExists >>

\* if not umount_binds_fail: umount path; on success go on to rmtree
UmountRoot ==
    /\ pc = "umount_root"
    /\ IF ~umount_binds_fail
       THEN \E o \in UmountRuns("root") :
               /\ cmds' = Append(cmds, Cmd("umount", <<"root">>, o.ok))
               /\ tries' = o.tries
               /\ IF o.ok
                  THEN /\ mounted' = mounted \ {"root"}
                       /\ pc' = "rmtree"
                       /\ UNCHANGED phase
                  ELSE /\ pc' = "return"
                       /\ phase' = "LeftBehind"
                       /\ UNCHANGED mounted
       ELSE /\ pc' = "return"
            /\ phase' = "LeftBehind"
            /\ UNCHANGED << cmds, tries, mounted >>
    /\ UNCHANGED << op, locVars, device, args, root_partition, efi_partition,
                    efi_mounted, disks, binary_name, idx, umount_binds_fail, exc,
                    result, dirExists >>

\* else: shutil.rmtree(path); its error is not caught and leaves the
\* finally block in place of whatever was in flight.
Rmtree ==
    /\ pc = "rmtree"
    /\ \E ok \in BOOLEAN :
          /\ cmds' = Append(cmds, Cmd("rmtree", <<"path">>, ok))
          /\ IF ok
             THEN /\ dirExists' = FALSE
                  /\ phase' = "Cleaned"
                  /\ pc' = "return"
                  /\ UNCHANGED result
             ELSE /\ result' = Exc("OSError", <<"rmtree">>)
                  /\ phase' = "LeftBehind"
                  /\ pc' = "done"
                  /\ UNCHANGED dirExists
    /\ UNCHANGED << op, locVars, device, args, root_partition, efi_partition,
                    efi_mounted, disks, binary_name, idx, umount_binds_fail, exc,
                    mounted, tries >>

\* The end of the finally block: the error in flight leaves, or the call
\* returns normally.
Return ==
    /\ pc = "return"
    /\ result' = IF exc = NoExc THEN Success ELSE exc
    /\ pc' = "done"
    /\ UNCHANGED << op, locVars, device, args, root_partition, efi_partition,
                    efi_mounted, disks, binary_name, idx, umount_binds_fail, exc,
                    dirExists, mounted, cmds, tries, phase >>

\* ------------------------------------------------------------------ specification

vars == << op, pc, ldevice, luuid, lres, device, args, root_partition,
           efi_partition, efi_mounted, disks, binary_name, idx, umount_binds_fail,
           exc, result, dirExists, mounted, cmds, tries, phase >>

InstallArgs ==
    [device : Devices, root_uuid : Uuids, efi_uuid : OptUuids, prep_uuid : OptUuids]

Init ==
    /\ op \in {"locate", "installBootloader"}
    /\ pc = IF op = "locate" THEN "locate" ELSE "locate_root"
    /\ IF op = "locate"
       THEN /\ ldevice \in Devices
            /\ luuid \in Uuids
            /\ args = [device |-> SDA, root_uuid |-> ab, efi_uuid |-> None,
                       prep_uuid |-> None]
       ELSE /\ ldevice = SDA
            /\ luuid = ab
            /\ args \in InstallArgs
    /\ lres = Idle
    /\ device = args.device
    /\ root_partition = None
    /\ efi_partition = None
    /\ efi_mounted = FALSE
    /\ disks = <<>>
    /\ binary_name = "unset"
    /\ idx = 1
    /\ umount_binds_fail = FALSE
    /\ exc = NoExc
    /\ result = NoResult
    /\ dirExists = FALSE
    /\ mounted = {}
    /\ cmds = <<>>
    /\ tries = 0
    /\ phase = "NotCreated"

Next ==
    \/ Locate
    \/ LocateRoot
    \/ Mkdtemp
    \/ LocateEfi
    \/ LocatePrep
    \/ Holders
    \/ MountRoot
    \/ MountBind
    \/ MountSys
    \/ MountEfi
    \/ ChooseBinary
    \/ GrubInstall
    \/ GrubRemovable
    \/ GrubMkconfig
    \/ EnterFinally
    \/ UmountEfi
    \/ UmountBind
    \/ UmountSys
    \/ UmountRoot
    \/ Rmtree
    \/ Return

Spec == Init /\ [][Next]_vars

\* ------------------------------------------------------------------ properties: helpers

Installing == op = "installBootloader"
Located == op = "locate" /\ pc = "done"

HasCmd(c) == \E i \in 1..Len(cmds) : cmds[i] = c
Attempted(cmd, target) == \E ok \in BOOLEAN : HasCmd(Cmd(cmd, <<target>>, ok))

MountTargets == {"root", "/dev", "/proc", "/run", "/sys", "efi"}
BindTargets == {"/dev", "/proc", "/run"}

\* An unmount failed although its target had been mounted by this run.
MountedUmountFailed ==
    \E i \in 1..Len(cmds) :
       /\ cmds[i].cmd = "umount"
       /\ ~cmds[i].ok
       /\ \E j \in 1..(i - 1) : cmds[j] = Cmd("mount", cmds[i].arg, TRUE)

BindSysUmountsOk == \A t \in BindTargets \cup {"/sys"} : HasCmd(Cmd("umount", <<t>>, TRUE))
BindSysUmountFailed == \E t \in BindTargets \cup {"/sys"} : HasCmd(Cmd("umount", <<t>>, FALSE))
BindMountFailed == \E t \in BindTargets : HasCmd(Cmd("mount", <<t>>, FALSE))
EfiUmountFailed == HasCmd(Cmd("umount", <<"efi">>, FALSE))

\* ------------------------------------------------------------------ C1

\* C1: when installBootloader has returned and no unmount of a target that
\* was actually mounted failed, none of the root, bind, sysfs or EFI mounts
\* it made is still mounted, whichever step failed.
C1_EveryMountUnmounted ==
    (Installing /\ pc = "done" /\ ~MountedUmountFailed) => mounted = {}

\* ------------------------------------------------------------------ C2

\* C2 as stated: after cleanup the working directory is gone if and only if
\* all bind and sysfs unmounts and the root unmount succeeded.
C2_RemovedIffUmountsOk ==
    (Installing /\ pc = "done" /\ phase \in {"Cleaned", "LeftBehind"}) =>
        (~dirExists <=> (BindSysUmountsOk /\ HasCmd(Cmd("umount", <<"root">>, TRUE))))

\* C2 amended: cleanup runs the removal of the working directory if and only
\* if all bind and sysfs unmounts and the root unmount succeeded, and the
\* directory is gone exactly when that removal also succeeded; a bind or
\* sysfs unmount failure keeps the directory and the root unmount is then
\* not attempted.
C2_RemovalIffUmountsOk ==
    /\ (Installing /\ pc = "done" /\ phase \in {"Cleaned", "LeftBehind"}) =>
          /\ Attempted("rmtree", "path")
                <=> (BindSysUmountsOk /\ HasCmd(Cmd("umount", <<"root">>, TRUE)))
          /\ ~dirExists <=> HasCmd(Cmd("rmtree", <<"path">>, TRUE))
    /\ (Installing /\ BindSysUmountFailed) =>
          /\ dirExists
          /\ ~Attempted("rmtree", "path")
          /\ ~Attempted("umount", "root")

\* All five unmounts succeeded and the directory was removed.
C2_Witness ==
    /\ Installing /\ pc = "done"
    /\ BindSysUmountsOk /\ HasCmd(Cmd("umount", <<"root">>, TRUE))
    /\ ~dirExists

\* ------------------------------------------------------------------ C3

\* C3: once the unmount of the mounted EFI partition has failed (after
\* UmountAttempts attempts) the call has ended with CommandExecutionError
\* for that unmount, whatever error was in flight; it never returns success.
C3_EfiUmountFailureRaises ==
    (Installing /\ EfiUmountFailed) =>
        /\ pc = "done"
        /\ tries = UmountAttempts
        /\ result = Exc("CommandExecutionError", <<"umount", "efi">>)
        /\ HasCmd(Cmd("mount", <<"efi">>, TRUE))

\* The EFI unmount failed while the error of a failed installer command was
\* in flight.
C3_Witness ==
    /\ Installing /\ EfiUmountFailed
    /\ exc.kind = "CommandExecutionError"
    /\ result.cause # exc.cause

\* ------------------------------------------------------------------ C4

\* C4: once the working directory has been created, the call does not end
\* without having run unmount commands, and it ends in exactly one of the
\* stages Cleaned (directory removed) and LeftBehind (directory kept); a
\* call that has not ended can always take its next step.
C4_CleanupOnEveryExit ==
    /\ (Installing /\ pc = "done" /\ phase # "NotCreated") =>
          /\ \E i \in 1..Len(cmds) : cmds[i].cmd = "umount"
          /\ phase \in {"Cleaned", "LeftBehind"}
          /\ (phase = "Cleaned") <=> ~dirExists
          /\ (phase = "LeftBehind") <=> dirExists
          /\ result # NoResult
    /\ (Installing /\ pc # "done") => ENABLED Next

\* A partition-resolution failure after the directory was created, ended
\* after cleanup.
C4_Witness ==
    /\ Installing /\ pc = "done"
    /\ result.kind = "DeviceNotFound"
    /\ phase = "LeftBehind"

\* ------------------------------------------------------------------ C5

\* C5: if the root mount succeeded and a bind mount then failed, the
\* working directory is never removed, and the call ends having attempted
\* the unmounts of /dev, /proc, /run and sysfs, with CommandExecutionError
\* for the failed bind mount.
C5_BindMountFailure ==
    (Installing /\ BindMountFailed) =>
        /\ HasCmd(Cmd("mount", <<"root">>, TRUE))
        /\ dirExists
        /\ ~Attempted("rmtree", "path")
        /\ pc = "done" =>
              /\ \A t \in BindTargets \cup {"/sys"} : Attempted("umount", t)
              /\ result.kind = "CommandExecutionError"
              /\ result.cause \in { <<"mount", t>> : t \in BindTargets }
              /\ HasCmd(Cmd("mount", <<result.cause[2]>>, FALSE))

\* The /proc bind mount failed after /dev was mounted, and the call ended.
C5_Witness ==
    /\ Installing /\ pc = "done"
    /\ HasCmd(Cmd("mount", <<"/dev">>, TRUE))
    /\ HasCmd(Cmd("mount", <<"/proc">>, FALSE))

\* ------------------------------------------------------------------ properties of locate

LCalls == lres.calls
Invoked(tool) == \E i \in 1..Len(LCalls) : LCalls[i].tool = tool
HasCall(c) == \E i \in 1..Len(LCalls) : LCalls[i] = c
ScanOk == HasCall(Call("lsblk", ldevice, TRUE))
ByUuid(ok) == Call("findfs", <<"UUID=">> \o luuid, ok)
ByPartUuid(ok) == Call("findfs", <<"PARTUUID=">> \o luuid, ok)

\* The i-th partition record of the scan output.
Rec(i) == ParseLine(lres.report[i])
RecIds == 1..Len(lres.report)
IdMatches(i) == Get(Rec(i), "UUID") = luuid \/ Get(Rec(i), "PARTUUID") = luuid
IsPart(i) == Get(Rec(i), "TYPE") = <<"part">>
Matches(i) == IsPart(i) /\ IdMatches(i)

\* ------------------------------------------------------------------ C6

\* C6: on an md device locate returns <device>p1 exactly when that path is a
\* block special file and raises DeviceNotFound otherwise, and neither
\* lsblk nor findfs is invoked.
C6_MdShortcut ==
    (Located /\ is_md_device(ldevice)) =>
        /\ (lres.kind = "return") <=> (lres.node = "blk")
        /\ lres.kind = "return" => lres.path = ldevice \o <<"p1">>
        /\ lres.kind # "return" => lres.kind = "DeviceNotFound"
        /\ ~Invoked("lsblk")
        /\ ~Invoked("findfs")

\* The p1 path exists but is no block special file: DeviceNotFound.
C6_Witness ==
    /\ Located /\ is_md_device(ldevice)
    /\ lres.node = "file"
    /\ lres.kind = "DeviceNotFound"

\* ------------------------------------------------------------------ C7

\* C7: on a non-md device a findfs probe is invoked only after lsblk
\* succeeded and the scan matched no record; the UUID probe comes directly
\* after the scan, the PARTUUID probe only directly after a failed UUID
\* probe, and both carry the identifier passed to locate.
C7_FallbackOrder ==
    (Located /\ ~is_md_device(ldevice)) =>
        \A j \in 1..Len(LCalls) :
           LCalls[j].tool = "findfs" =>
              /\ \E i \in 1..(j - 1) : LCalls[i] = Call("lsblk", ldevice, TRUE)
              /\ ~\E k \in RecIds : Matches(k)
              /\ LCalls[j].arg \in { <<"UUID=">> \o luuid, <<"PARTUUID=">> \o luuid }
              /\ LCalls[j].arg = <<"UUID=">> \o luuid =>
                    LCalls[j - 1] = Call("lsblk", ldevice, TRUE)
              /\ LCalls[j].arg = <<"PARTUUID=">> \o luuid =>
                    LCalls[j - 1] = ByUuid(FALSE)

\* The UUID probe failed and the PARTUUID probe found the partition.
C7_Witness ==
    /\ Located /\ ~is_md_device(ldevice)
    /\ HasCall(ByUuid(FALSE))
    /\ HasCall(ByPartUuid(TRUE))
    /\ lres.kind = "return"

\* ------------------------------------------------------------------ C8

\* C8 as stated: on a non-md device locate never returns the path of a
\* record whose TYPE is not "part" and whose UUID or PARTUUID equals the
\* requested identifier, also not through the findfs probes.
C8_NonPartNeverReturned ==
    (Located /\ ~is_md_device(ldevice) /\ ScanOk /\ lres.kind = "return") =>
        \A i \in RecIds :
           (~IsPart(i) /\ IdMatches(i)) => lres.path # DevPath(Get(Rec(i), "KNAME"))

\* C8 amended: the table scan never returns a record whose TYPE is not
\* "part", even if its UUID or PARTUUID equals the requested identifier;
\* whenever locate returns without invoking a findfs probe the path is
\* that of a TYPE "part" record and of no such record.
C8_ScanSkipsNonPart ==
    (Located /\ ~is_md_device(ldevice) /\ ScanOk /\ lres.kind = "return"
       /\ ~Invoked("findfs")) =>
        /\ \A i \in RecIds :
              (~IsPart(i) /\ IdMatches(i)) => lres.path # DevPath(Get(Rec(i), "KNAME"))
        /\ \E i \in RecIds : IsPart(i) /\ lres.path = DevPath(Get(Rec(i), "KNAME"))

\* The first record matches but is no partition; the scan returned the
\* second one.
C8_Witness ==
    /\ Located /\ ~is_md_device(ldevice) /\ ScanOk /\ ~Invoked("findfs")
    /\ Len(lres.report) > 2
    /\ ~IsPart(1) /\ IdMatches(1)
    /\ lres.path = DevPath(Get(Rec(2), "KNAME"))

\* ------------------------------------------------------------------ C9

\* C9: on a non-md device whose lsblk succeeds, locate returns /dev/<KNAME>
\* of the first record with TYPE "part" whose UUID or PARTUUID equals the
\* requested identifier exactly; if no record does, the scan returns
\* nothing and the probes are consulted.
C9_FirstMatchWins ==
    (Located /\ ~is_md_device(ldevice) /\ ScanOk) =>
        /\ \A i \in RecIds :
              (Matches(i) /\ \A j \in 1..(i - 1) : ~Matches(j)) =>
                 /\ lres.kind = "return"
                 /\ lres.path = DevPath(Get(Rec(i), "KNAME"))
                 /\ ~Invoked("findfs")
        /\ (~\E i \in RecIds : Matches(i)) => Invoked("findfs")

\* The first record matches by PARTUUID only, the second by UUID; the first
\* is returned.
C9_Witness ==
    /\ Located /\ ~is_md_device(ldevice) /\ ScanOk
    /\ Len(lres.report) > 2
    /\ Matches(1) /\ Get(Rec(1), "UUID") # luuid
    /\ Matches(2) /\ Get(Rec(2), "UUID") = luuid
    /\ lres.path = DevPath(Get(Rec(1), "KNAME"))

\* ------------------------------------------------------------------ C10

LocateErrors == {"DeviceNotFound", "CommandExecutionError"}

\* C10: on a non-md device a failed table refresh never ends the call (lsblk
\* is still invoked); a failed lsblk gives CommandExecutionError; no scan
\* match and two failed probes give DeviceNotFound; no other error arises
\* and an error carries no path.
C10_FailureKinds ==
    (Located /\ ~is_md_device(ldevice)) =>
        /\ lres.kind \in {"return"} \cup LocateErrors
        /\ Invoked("partx")
        /\ Invoked("lsblk")
        /\ HasCall(Call("lsblk", ldevice, FALSE)) <=> lres.kind = "CommandExecutionError"
        /\ (ScanOk /\ HasCall(ByUuid(FALSE)) /\ HasCall(ByPartUuid(FALSE)))
              <=> lres.kind = "DeviceNotFound"
        /\ lres.kind = "DeviceNotFound" => ~\E i \in RecIds : Matches(i)
        /\ lres.kind \in LocateErrors <=> lres.path = <<>>

\* partx failed, and the call still returned a partition.
C10_Witness ==
    /\ Located /\ ~is_md_device(ldevice)
    /\ HasCall(Call("partx", ldevice, FALSE))
    /\ lres.kind = "return"

\* ------------------------------------------------------------------ properties of the session

\* The targets of the commands of one kind, in the order they were run.
RECURSIVE TargetsFrom(_, _)
TargetsFrom(kind, i) ==
    IF i > Len(cmds) THEN <<>>
    ELSE (IF cmds[i].cmd = kind THEN << cmds[i].arg[1] >> ELSE <<>>)
         \o TargetsFrom(kind, i + 1)

MountsRun == TargetsFrom("mount", 1)
UmountsRun == TargetsFrom("umount", 1)

IsPrefix(s, t) == Len(s) <= Len(t) /\ s = SubSeq(t, 1, Len(s))

\* The targets this run has mounted successfully.
Established == { t \in MountTargets : HasCmd(Cmd("mount", <<t>>, TRUE)) }

\* ------------------------------------------------------------------ C11

\* C11: in every state in which the recursive removal of the working
\* directory is about to run or has run, none of the root, /dev, /proc,
\* /run, sysfs or EFI mounts is still mounted.
C11_NoRemovalWhileMounted ==
    (Installing /\ (pc = "rmtree" \/ Attempted("rmtree", "path"))) => mounted = {}

\* The removal is about to run after all six targets had been mounted.
C11_Witness ==
    /\ Installing /\ pc = "rmtree"
    /\ Established = MountTargets

\* ------------------------------------------------------------------ C12

MountOrder == << "root", "/dev", "/proc", "/run", "/sys", "efi" >>

\* Mounts are attempted in the order root, /dev, /proc, /run, sysfs, EFI and
\* nothing is mounted before the root mount succeeded.
MountsInOrder ==
    /\ IsPrefix(MountsRun, MountOrder)
    /\ Len(MountsRun) > 1 => HasCmd(Cmd("mount", <<"root">>, TRUE))

\* C12 as stated: mounts in order, and the unmount attempts in the exact
\* reverse of the mount order: EFI, sysfs, /run, /proc, /dev, root.
C12_UmountExactReverse ==
    Installing =>
        /\ MountsInOrder
        /\ IsPrefix(UmountsRun,
                    (IF efi_mounted THEN <<"efi">> ELSE <<>>)
                    \o << "/sys", "/run", "/proc", "/dev", "root" >>)

\* C12 amended: mounts in order root, /dev, /proc, /run, sysfs, EFI; the
\* unmount attempts are EFI first, then the binds in their mount order
\* /dev, /proc, /run, then sysfs, then root last.
C12_UmountOrder ==
    Installing =>
        /\ MountsInOrder
        /\ IsPrefix(UmountsRun,
                    (IF efi_mounted THEN <<"efi">> ELSE <<>>)
                    \o << "/dev", "/proc", "/run", "/sys", "root" >>)

\* All six unmounts were attempted.
C12_Witness ==
    /\ Installing /\ pc = "done"
    /\ Len(UmountsRun) = Len(MountOrder)

\* ------------------------------------------------------------------ C13

\* C13: an unmount is attempted for a target only if that target's mount
\* was established earlier in this installation.
C13_UmountOnlyEstablished ==
    Installing =>
        \A i \in 1..Len(cmds) :
           cmds[i].cmd = "umount" =>
              \E j \in 1..(i - 1) : cmds[j] = Cmd("mount", cmds[i].arg, TRUE)

\* ------------------------------------------------------------------ C14

CleanupAfterEfi == BindTargets \cup {"/sys", "root"}

\* C14: once the EFI unmount has failed the call is over with that error,
\* no unmount of a bind target, of sysfs or of root and no removal of the
\* working directory has been attempted, and every mount this run
\* established and the directory are still in place.
C14_EfiFailureSupersedesCleanup ==
    (Installing /\ EfiUmountFailed) =>
        /\ pc = "done"
        /\ result = Exc("CommandExecutionError", <<"umount", "efi">>)
        /\ \A t \in CleanupAfterEfi : ~Attempted("umount", t)
        /\ ~Attempted("rmtree", "path")
        /\ dirExists
        /\ mounted = Established

\* The EFI unmount failed with all six targets mounted.
C14_Witness ==
    /\ Installing /\ EfiUmountFailed
    /\ mounted = MountTargets

\* ------------------------------------------------------------------ C15

SetupAndInstallOk == HasCmd(Cmd("chroot", MkconfigCmd, TRUE))

\* C15: when a bind, sysfs or root unmount has failed, every bind target
\* and sysfs was still attempted by the end of the call, and the call
\* returns success if setup and install succeeded and the original error
\* otherwise.
C15_UmountFailuresDegrade ==
    (/\ Installing /\ pc = "done"
     /\ \E t \in CleanupAfterEfi : HasCmd(Cmd("umount", <<t>>, FALSE))) =>
        /\ \A t \in BindTargets \cup {"/sys"} : Attempted("umount", t)
        /\ result = IF exc = NoExc THEN Success ELSE exc
        /\ (result = Success) <=> SetupAndInstallOk

\* A successful installation whose /proc unmount failed: /run and sysfs
\* were attempted afterwards and the call returned success.
C15_Witness ==
    /\ Installing /\ pc = "done"
    /\ result = Success
    /\ HasCmd(Cmd("umount", <<"/proc">>, FALSE))
    /\ Attempted("umount", "/run")
    /\ Attempted("umount", "/sys")

\* ------------------------------------------------------------------ C16

\* The chrooted commands run so far, in order.
RECURSIVE ChrootsFrom(_)
ChrootsFrom(i) ==
    IF i > Len(cmds) THEN <<>>
    ELSE (IF cmds[i].cmd = "chroot" THEN << cmds[i] >> ELSE <<>>)
         \o ChrootsFrom(i + 1)

ChrootsRun == ChrootsFrom(1)

\* The install sequence: one install per disk, the --removable pass when an
\* EFI partition was resolved, then the configuration generator.
InstallPlan ==
    [ i \in 1..Len(disks) |-> InstallCmd(disks[i]) ]
    \o (IF efi_partition # None THEN << RemovableCmd(device) >> ELSE <<>>)
    \o << MkconfigCmd >>

\* The commands run are an initial part of the plan, and only the last one
\* run can have failed.
InstallInOrder ==
    /\ IsPrefix([ i \in 1..Len(ChrootsRun) |-> ChrootsRun[i].arg ], InstallPlan)
    /\ \A i \in 1..(Len(ChrootsRun) - 1) : ChrootsRun[i].ok

\* C16: the install sequence runs in order (installs per disk, the
\* --removable pass iff an EFI partition was resolved, mkconfig last),
\* nothing runs after a failed command and nothing is retried, and a call
\* in which one of these commands failed ends with CommandExecutionError.
C16_OrderedAbortOnFailure ==
    Installing =>
        /\ InstallInOrder
        /\ (pc = "done" /\ \E i \in 1..Len(ChrootsRun) : ~ChrootsRun[i].ok)
              => result.kind = "CommandExecutionError"

\* ------------------------------------------------------------------ C17

\* C17: every --removable pass targets the device that was passed to
\* installBootloader.
C17_RemovableOnOriginalDevice ==
    Installing =>
        \A i \in 1..Len(ChrootsRun) :
           ChrootsRun[i].arg[Len(ChrootsRun[i].arg)] = "--removable"
              => ChrootsRun[i].arg = RemovableCmd(args.device)

\* ------------------------------------------------------------------ C18

\* C18: the EFI and PReP partitions are resolved before the working
\* directory is created, and a call that ends with DeviceNotFound has
\* created no working directory, mounted nothing and attempted no unmount.
C18_ResolveBeforeWorkdir ==
    Installing =>
        /\ pc \in {"locate_root", "locate_efi", "locate_prep"} => ~dirExists
        /\ (pc = "done" /\ result.kind = "DeviceNotFound") =>
              /\ ~dirExists
              /\ phase = "NotCreated"
              /\ MountsRun = <<>>
              /\ UmountsRun = <<>>

\* ------------------------------------------------------------------ C19

\* C19: when the removal of the working directory failed, the directory is
\* still there and the call returns what it would have returned anyway:
\* success, or the error raised by setup or install.
C19_RmtreeFailureOnlyLogged ==
    (Installing /\ pc = "done" /\ HasCmd(Cmd("rmtree", <<"path">>, FALSE))) =>
        /\ dirExists
        /\ result = IF exc = NoExc THEN Success ELSE exc

\* ------------------------------------------------------------------ C20

\* The mounts the chrooted commands need.
RequiredMounts ==
    (MountTargets \ {"efi"}) \cup (IF args.efi_uuid # None THEN {"efi"} ELSE {})

\* C20: whenever a chrooted command is about to run, root, the three
\* binds, sysfs and (when an EFI UUID was given) the EFI partition are
\* mounted; every chrooted command that ran did so after all of them were
\* mounted and before any unmount; after a failed mount no chrooted command
\* is ever run.
C20_ChrootOnlyFullyMounted ==
    Installing =>
        /\ pc \in {"install", "removable", "mkconfig"} => RequiredMounts \subseteq mounted
        /\ ChrootsRun # <<>> =>
              /\ RequiredMounts \subseteq Established
              /\ \A i, j \in 1..Len(cmds) :
                    (cmds[i].cmd = "chroot" /\ cmds[j].cmd \in {"mount", "umount"})
                       => (cmds[j].cmd = "mount" <=> j < i)
        /\ (\E t \in MountTargets : HasCmd(Cmd("mount", <<t>>, FALSE)))
              => ChrootsRun = <<>>

\* The configuration generator is about to run with all six targets mounted.
C20_Witness ==
    /\ Installing /\ pc = "mkconfig"
    /\ mounted = MountTargets
    /\ Len(ChrootsRun) >= 2

====
